---------------------------- MODULE Spec2Model ----------------------------
(***************************************************************************)
(* Simcache: a bounded key-value cache with optional per-entry TTL and a   *)
(* pluggable eviction policy (LRU or LFU).  The model follows              *)
(* src/src/cache.rs and src/src/eviction/{lru,lfu}.rs.                     *)
(*                                                                         *)
(* Option<T> is modelled as a set with at most one element: None is {}     *)
(* and Some(x) is {x}.  A HashMap / BTreeMap is a function whose DOMAIN is *)
(* the set of keys present.  An Instant is a natural number read from the  *)
(* clock `now`.                                                            *)
(***************************************************************************)
EXTENDS Integers, Sequences, FiniteSets, TLC

\* ------------------------------------------------------------------ bounds
MaxCap   == 2
MaxTime  == 1
MaxTtl   == 1
MaxCount == 3

\* the keys and values of test_cache_lru / test_cache_lfu
Keys      == {"a", "b", "c"}
Vals      == {"1", "2"}

None      == {}
Some(x)   == {x}
Unwrap(o) == CHOOSE x \in o : TRUE

Ttls      == {None} \cup {Some(d) : d \in 0..MaxTtl}

\* store, eviction_policy, max_capacity: the fields of Simcache
\* now:      the reading of Instant::now()
\* call:     the last call made on the cache, its arguments and what it returned
\* inserted: the keys passed to insert so far; kept by the insert-only
\*           specification SpecDistinct, left empty by Spec
VARIABLES store, eviction_policy, max_capacity, now, call, inserted

vars == <<store, eviction_policy, max_capacity, now, call, inserted>>

\* ------------------------------------------------------- map primitives
MapRemove(m, k)    == [x \in DOMAIN m \ {k} |-> m[x]]
MapInsert(m, k, v) == [x \in DOMAIN m \cup {k} |-> IF x = k THEN v ELSE m[x]]
EmptyMap           == [x \in {} |-> 0]

\* VecDeque::iter().position(|k| k == key): the first index holding key
Position(q, key) ==
    IF \E i \in 1..Len(q) : q[i] = key
    THEN Some(CHOOSE i \in 1..Len(q) : q[i] = key /\ \A j \in 1..(i - 1) : q[j] # key)
    ELSE None

\* VecDeque::remove(pos)
SeqRemoveAt(q, pos) == [i \in 1..(Len(q) - 1) |-> IF i < pos THEN q[i] ELSE q[i + 1]]

\* ------------------------------------------------------------------- LRU
LRU_new == [kind |-> "LRU", access_order |-> <<>>]

LRU_remove_key(p, key) ==
    LET pos == Position(p.access_order, key) IN
    IF pos # None
    THEN [p EXCEPT !.access_order = SeqRemoveAt(@, Unwrap(pos))]
    ELSE p

\* mutant of LRU_key_used: the key is appended without removing its old position
LRU_key_used_no_dedup(p, key) == [p EXCEPT !.access_order = Append(@, key)]

LRU_key_used(p, key) ==
    LET p1 == LRU_remove_key(p, key) IN
    [p1 EXCEPT !.access_order = Append(@, key)]

\* pop_front(): the keys evict_next may return (none: the expect() panics)
LRU_evict_next_keys(p) ==
    IF p.access_order = <<>> THEN {} ELSE {Head(p.access_order)}

LRU_evict_next(p, k) == [p EXCEPT !.access_order = Tail(@)]

\* ------------------------------------------------------------------- LFU
LFU_new == [kind |-> "LFU", usage_counter |-> EmptyMap, count_to_key |-> EmptyMap]

SetMin(S) == CHOOSE x \in S : \A y \in S : x <= y

\* mutant of update_count_mapping: an emptied bucket is left in the index
update_count_mapping_keeps_bucket(p, key, old_count, new_count) ==
    LET c0 == p.count_to_key
        c1 == IF old_count > 0 /\ old_count \in DOMAIN c0
              THEN MapInsert(c0, old_count, c0[old_count] \ {key})
              ELSE c0
        set0 == IF new_count \in DOMAIN c1 THEN c1[new_count] ELSE {}
    IN [p EXCEPT !.count_to_key = MapInsert(c1, new_count, set0 \cup {key})]

update_count_mapping(p, key, old_count, new_count) ==
    LET c0 == p.count_to_key
        c1 == IF old_count > 0 /\ old_count \in DOMAIN c0
              THEN LET old_set == c0[old_count] \ {key} IN
                   IF old_set = {} THEN MapRemove(c0, old_count)
                                   ELSE MapInsert(c0, old_count, old_set)
              ELSE c0
        set0 == IF new_count \in DOMAIN c1 THEN c1[new_count] ELSE {}
    IN [p EXCEPT !.count_to_key = MapInsert(c1, new_count, set0 \cup {key})]

\* saturating_add(1) saturates at usize::MAX, far above MaxCount
LFU_key_used(p, key) ==
    LET occupied  == key \in DOMAIN p.usage_counter
        old_count == IF occupied THEN p.usage_counter[key] ELSE 0
        new_count == IF occupied THEN old_count + 1 ELSE 1
        p1 == [p EXCEPT !.usage_counter = MapInsert(@, key, new_count)]
    IN update_count_mapping(p1, key, old_count, new_count)

\* mutant of LFU_evict_next_keys: the victim comes from the last bucket
LFU_evict_next_keys_last(p) ==
    IF DOMAIN p.count_to_key = {} THEN {}
    ELSE p.count_to_key[CHOOSE x \in DOMAIN p.count_to_key :
                           \A y \in DOMAIN p.count_to_key : x >= y]

\* key_set.iter().next() on a HashSet: any key of the minimum bucket
\* (none when the BTreeMap is empty: the expect() panics)
LFU_evict_next_keys(p) ==
    IF DOMAIN p.count_to_key = {} THEN {}
    ELSE p.count_to_key[SetMin(DOMAIN p.count_to_key)]

LFU_evict_next(p, key_to_evict) ==
    LET min_count == SetMin(DOMAIN p.count_to_key)
        key_set   == p.count_to_key[min_count] \ {key_to_evict}
        c1        == MapRemove(p.count_to_key, min_count)
    IN [p EXCEPT !.usage_counter = MapRemove(@, key_to_evict),
                 !.count_to_key  = IF key_set # {} THEN MapInsert(c1, min_count, key_set)
                                                   ELSE c1]

LFU_remove_key(p, key) ==
    IF key \notin DOMAIN p.usage_counter THEN p
    ELSE LET v     == p.usage_counter[key]
             h_set == p.count_to_key[v] \ {key}
         IN [p EXCEPT !.usage_counter = MapRemove(@, key),
                      !.count_to_key  = IF h_set = {} THEN MapRemove(@, v)
                                                      ELSE MapInsert(@, v, h_set)]

\* ------------------------------------------- EvictionPolicy trait dispatch
key_used(p, key) ==
    IF p.kind = "LRU" THEN LRU_key_used(p, key) ELSE LFU_key_used(p, key)

remove_key(p, key) ==
    IF p.kind = "LRU" THEN LRU_remove_key(p, key) ELSE LFU_remove_key(p, key)

evict_next_keys(p) ==
    IF p.kind = "LRU" THEN LRU_evict_next_keys(p) ELSE LFU_evict_next_keys(p)

evict_next(p, k) ==
    IF p.kind = "LRU" THEN LRU_evict_next(p, k) ELSE LFU_evict_next(p, k)

\* the keys the policy holds a record for
Tracked(p) ==
    IF p.kind = "LRU"
    THEN {p.access_order[i] : i \in 1..Len(p.access_order)}
    ELSE DOMAIN p.usage_counter \cup UNION {p.count_to_key[c] : c \in DOMAIN p.count_to_key}

\* how many records the policy holds for key
Records(p, key) ==
    IF p.kind = "LRU"
    THEN Cardinality({i \in 1..Len(p.access_order) : p.access_order[i] = key})
    ELSE Cardinality({c \in DOMAIN p.count_to_key : key \in p.count_to_key[c]})

\* ---------------------------------------------------------------- Simcache
Self == [store |-> store, eviction_policy |-> eviction_policy,
         max_capacity |-> max_capacity]

len(c) == Cardinality(DOMAIN c.store)

\* mutant of Expired: the entry counts as expired at the very instant of expiry
Expired_at_expiry(entry, t) == entry[2] # None /\ t >= Unwrap(entry[2])

\* Instant::now() > *expiry_time
Expired(entry, t) == entry[2] # None /\ t > Unwrap(entry[2])

\* mutant of get: an expired entry is reported absent but left in the store
get_keeps_expired(c, key, t) ==
    IF key \notin DOMAIN c.store
    THEN [cache |-> c, ret |-> None]
    ELSE IF Expired(c.store[key], t)
    THEN [cache |-> c, ret |-> None]
    ELSE [cache |-> [c EXCEPT !.eviction_policy = key_used(@, key)],
          ret   |-> Some(c.store[key][1])]

\* Simcache::get at clock reading t: the cache afterwards and the value returned
get(c, key, t) ==
    IF key \notin DOMAIN c.store
    THEN [cache |-> c, ret |-> None]
    ELSE IF Expired(c.store[key], t)
    THEN [cache |-> [c EXCEPT !.store = MapRemove(@, key)], ret |-> None]
    ELSE [cache |-> [c EXCEPT !.eviction_policy = key_used(@, key)],
          ret   |-> Some(c.store[key][1])]

\* mutant of remove: the value is returned by copy, the entry stays
remove_keeps_entry(c, key) ==
    [cache |-> c,
     ret   |-> IF key \in DOMAIN c.store THEN Some(c.store[key][1]) ELSE None]

\* Simcache::remove: the policy is not told (remove_key is commented out)
remove(c, key) ==
    [cache |-> [c EXCEPT !.store = MapRemove(@, key)],
     ret   |-> IF key \in DOMAIN c.store THEN Some(c.store[key][1]) ELSE None]

\* mutant of AtCapacity: the store may grow one past max_capacity
AtCapacity_off_by_one(c) == len(c) > c.max_capacity

\* max_capacity - 1 on usize with max_capacity = 0: a build with overflow
\* checks panics, a build without them wraps to usize::MAX
Underflows(c) == c.max_capacity = 0

\* the left operand of && in insert; after a wrap no len() exceeds usize::MAX
AtCapacity(c) ==
    IF Underflows(c) THEN FALSE ELSE len(c) > c.max_capacity - 1

\* insert reaches evict_next: && evaluates get only when the store is full
Evicts(c, key, t) == AtCapacity(c) /\ get(c, key, t).ret = None

\* the cache once the condition of the if has been evaluated
AfterCheck(c, key, t) == IF AtCapacity(c) THEN get(c, key, t).cache ELSE c

\* mutant of insert: the entry is written before the eviction is carried out
insert_writes_before_evicting(c, key, value, ttl, t1, t2, key_to_evict) ==
    LET c1 == AfterCheck(c, key, t1)
        exp == IF ttl = None THEN None ELSE Some(t2 + Unwrap(ttl))
        c2 == [c1 EXCEPT !.store = MapInsert(@, key, <<value, exp>>)]
        c3 == IF Evicts(c, key, t1)
              THEN remove([c2 EXCEPT !.eviction_policy = evict_next(@, key_to_evict)],
                          key_to_evict).cache
              ELSE c2
    IN [c3 EXCEPT !.eviction_policy = key_used(@, key)]

\* mutant of insert: the use of the inserted key is not reported to the policy
insert_without_key_used(c, key, value, ttl, t1, t2, key_to_evict) ==
    LET c1 == AfterCheck(c, key, t1)
        c2 == IF Evicts(c, key, t1)
              THEN remove([c1 EXCEPT !.eviction_policy = evict_next(@, key_to_evict)],
                          key_to_evict).cache
              ELSE c1
        exp == IF ttl = None THEN None ELSE Some(t2 + Unwrap(ttl))
    IN [c2 EXCEPT !.store = MapInsert(@, key, <<value, exp>>)]

\* Simcache::insert; t1 is the clock read by get, t2 the one read for the
\* expiry, key_to_evict the key evict_next returns when it is called
insert(c, key, value, ttl, t1, t2, key_to_evict) ==
    LET c1 == AfterCheck(c, key, t1)
        c2 == IF Evicts(c, key, t1)
              THEN remove([c1 EXCEPT !.eviction_policy = evict_next(@, key_to_evict)],
                          key_to_evict).cache
              ELSE c1
        exp == IF ttl = None THEN None ELSE Some(t2 + Unwrap(ttl))
        c3 == [c2 EXCEPT !.store = MapInsert(@, key, <<value, exp>>)]
    IN [c3 EXCEPT !.eviction_policy = key_used(@, key)]

\* ------------------------------------------------------------------ bounds
\* usage counts stay within MaxCount
Bounded(p) ==
    p.kind = "LFU" => \A k \in DOMAIN p.usage_counter : p.usage_counter[k] <= MaxCount

\* ------------------------------------------------------------------ actions
Init ==
    /\ store = EmptyMap
    /\ eviction_policy \in {LRU_new, LFU_new}
    /\ max_capacity \in 1..MaxCap
    /\ now = 0
    /\ call = [op |-> "new"]
    /\ inserted = {}

Install(c) ==
    /\ store' = c.store
    /\ eviction_policy' = c.eviction_policy
    /\ max_capacity' = c.max_capacity

\* the clock is discrete and advances between calls (Tick): both clock
\* readings of one insert call see the same instant
InsertCall(key, value, ttl) ==
    LET evicts == Evicts(Self, key, now)
        p1     == AfterCheck(Self, key, now).eviction_policy
    IN \E victim \in IF evicts THEN {Some(k) : k \in evict_next_keys(p1)} ELSE {None} :
         LET c == insert(Self, key, value, ttl, now, now,
                         IF evicts THEN Unwrap(victim) ELSE key)
         IN /\ Bounded(c.eviction_policy)
            /\ Install(c)
            /\ call' = [op |-> "insert", key |-> key, value |-> value,
                        ttl |-> ttl, evicted |-> victim]
            /\ UNCHANGED now

Insert(key, value, ttl) ==
    /\ InsertCall(key, value, ttl)
    /\ UNCHANGED inserted

Get(key) ==
    LET r == get(Self, key, now) IN
    /\ Bounded(r.cache.eviction_policy)
    /\ Install(r.cache)
    /\ call' = [op |-> "get", key |-> key, ret |-> r.ret]
    /\ UNCHANGED <<now, inserted>>

Remove(key) ==
    LET r == remove(Self, key) IN
    /\ Install(r.cache)
    /\ call' = [op |-> "remove", key |-> key, ret |-> r.ret]
    /\ UNCHANGED <<now, inserted>>

Tick ==
    /\ now < MaxTime
    /\ now' = now + 1
    /\ UNCHANGED <<store, eviction_policy, max_capacity, call, inserted>>

Next ==
    \/ \E key \in Keys, value \in Vals, ttl \in Ttls : Insert(key, value, ttl)
    \/ \E key \in Keys : Get(key)
    \/ \E key \in Keys : Remove(key)
    \/ Tick

Spec == Init /\ [][Next]_vars

\* a fresh cache that only sees insert calls, with pairwise distinct keys
InsertDistinct(key, value, ttl) ==
    /\ key \notin inserted
    /\ InsertCall(key, value, ttl)
    /\ inserted' = inserted \cup {key}

NextDistinct ==
    \/ \E key \in Keys, value \in Vals, ttl \in Ttls : InsertDistinct(key, value, ttl)
    \/ Tick

SpecDistinct == Init /\ [][NextDistinct]_vars

\* a cache built by new(0): the constructors take any usize
InitZero ==
    /\ store = EmptyMap
    /\ eviction_policy \in {LRU_new, LFU_new}
    /\ max_capacity = 0
    /\ now = 0
    /\ call = [op |-> "new"]
    /\ inserted = {}

\* insert in a build with overflow checks: max_capacity - 1 panics before
\* anything is changed
InsertOverflowPanic ==
    /\ Underflows(Self)
    /\ call' = [op |-> "panic"]
    /\ UNCHANGED <<store, eviction_policy, max_capacity, now, inserted>>

\* no call follows a panic
Running == call.op # "panic"

NextZero ==
    \/ \E key \in Keys, value \in Vals, ttl \in Ttls : Running /\ Insert(key, value, ttl)
    \/ Running /\ InsertOverflowPanic
    \/ \E key \in Keys : Running /\ Get(key)
    \/ \E key \in Keys : Running /\ Remove(key)
    \/ Running /\ Tick

SpecZero == InitZero /\ [][NextZero]_vars

\* an eviction policy on its own, driven through the EvictionPolicy trait
InitPolicy ==
    /\ store = EmptyMap
    /\ eviction_policy \in {LRU_new, LFU_new}
    /\ max_capacity = MaxCap
    /\ now = 0
    /\ call = [op |-> "new"]
    /\ inserted = {}

PolicyKeyUsed(key) ==
    LET p == key_used(eviction_policy, key) IN
    /\ Bounded(p)
    /\ eviction_policy' = p
    /\ call' = [op |-> "key_used", key |-> key]
    /\ UNCHANGED <<store, max_capacity, now, inserted>>

PolicyRemoveKey(key) ==
    /\ eviction_policy' = remove_key(eviction_policy, key)
    /\ call' = [op |-> "remove_key", key |-> key]
    /\ UNCHANGED <<store, max_capacity, now, inserted>>

\* evict_next on a policy that tracks a key; call.key is the key returned
PolicyEvictNext ==
    \E k \in evict_next_keys(eviction_policy) :
       /\ eviction_policy' = evict_next(eviction_policy, k)
       /\ call' = [op |-> "evict_next", key |-> k]
       /\ UNCHANGED <<store, max_capacity, now, inserted>>

NextPolicy ==
    \/ \E key \in Keys : PolicyKeyUsed(key)
    \/ \E key \in Keys : PolicyRemoveKey(key)
    \/ PolicyEvictNext

SpecPolicy == InitPolicy /\ [][NextPolicy]_vars

\* =================================================================== claims
InStore(k) == k \in DOMAIN store

\* C1: with max_capacity >= 1 the store never holds more than max_capacity
\* entries after a call of insert, get or remove.
C1_StoreWithinCapacity == len(Self) <= max_capacity

\* C2: after every call the policy tracks exactly the keys of the store, each
\* with exactly one record.
C2_PolicyTracksExactlyStore ==
    /\ Tracked(eviction_policy) = DOMAIN store
    /\ \A k \in DOMAIN store : Records(eviction_policy, k) = 1

\* C3: once remove(k) has returned, k is neither in the store nor tracked by
\* the policy.
C3_RemoveErasesPolicyRecord ==
    call.op = "remove" =>
        /\ call.key \notin DOMAIN store
        /\ call.key \notin Tracked(eviction_policy)

\* the step is a call of op: every call records itself in call and leaves the
\* clock alone, and Tick, the only other step, advances the clock
IsCall(op) == now' = now /\ call'.op = op

\* the keys of the store, least recently used first: every insert and every
\* successful get calls key_used, which moves the key to the back
StoreRecency == SelectSeq(eviction_policy.access_order, InStore)

\* C4: under LRU, insert of a key that is not in the store while the store
\* holds max_capacity entries removes exactly one entry, the least recently
\* inserted-or-read key of the store.
C4_LruEvictsOldest ==
    [][(/\ IsCall("insert")
        /\ eviction_policy.kind = "LRU"
        /\ call'.key \notin DOMAIN store
        /\ len(Self) = max_capacity)
       => DOMAIN store \ DOMAIN store' = {Head(StoreRecency)}]_vars

\* C5: under LFU, insert of a key that is not in the store while the store
\* holds max_capacity entries removes exactly one entry, whose usage count is
\* minimal among the keys of the store; the other entries stay unchanged.
C5_LfuEvictsMinCount ==
    [][(/\ IsCall("insert")
        /\ eviction_policy.kind = "LFU"
        /\ call'.key \notin DOMAIN store
        /\ len(Self) = max_capacity)
       => \E v \in DOMAIN store :
             /\ DOMAIN store \ DOMAIN store' = {v}
             /\ \A k \in DOMAIN store :
                   eviction_policy.usage_counter[v] <= eviction_policy.usage_counter[k]
             /\ \A k \in DOMAIN store \ {v} : store'[k] = store[k]]_vars

\* C6: insert of a key that is physically in the store (expired or not) while
\* the store holds max_capacity entries does not call evict_next, removes no
\* other key and leaves len() unchanged.
C6_OverwriteDoesNotEvict ==
    [][(/\ IsCall("insert")
        /\ call'.key \in DOMAIN store
        /\ len(Self) = max_capacity)
       => /\ call'.evicted = None
          /\ DOMAIN store' = DOMAIN store]_vars

\* C7: in a fresh cache that only sees inserts of pairwise distinct keys,
\* len() <= max_capacity after each call, and len() = max_capacity once
\* max_capacity inserts have been made.
C7_DistinctInsertsFillToCapacity ==
    /\ len(Self) <= max_capacity
    /\ Cardinality(inserted) >= max_capacity => len(Self) = max_capacity

\* more distinct inserts than max_capacity have been made, the last one evicting
C7_Witness ==
    /\ Cardinality(inserted) > max_capacity
    /\ call.op = "insert"
    /\ call.evicted # None
    /\ call.evicted # Some(call.key)

\* insert(k, v, _) leaves v as the value of k; no call changes the value of
\* another entry it keeps
ValuesAreLastInserted ==
    /\ IsCall("insert") =>
          /\ call'.key \in DOMAIN store'
          /\ store'[call'.key][1] = call'.value
          /\ \A k \in (DOMAIN store \cap DOMAIN store') \ {call'.key} : store'[k] = store[k]
    /\ ~IsCall("insert") =>
          \A k \in DOMAIN store \cap DOMAIN store' : store'[k] = store[k]

\* C8: remove(k) of a key in the store returns the value last inserted for k,
\* decreases len() by one, and a following get(k) returns nothing; remove(k) of
\* a key not in the store returns nothing and leaves the store as it was.
C8_RemoveCorrect ==
    [][/\ ValuesAreLastInserted
       /\ IsCall("remove") =>
             IF call'.key \in DOMAIN store
             THEN /\ call'.ret = Some(store[call'.key][1])
                  /\ len(Self') = len(Self) - 1
                  /\ get(Self', call'.key, now').ret = None
             ELSE /\ call'.ret = None
                  /\ store' = store]_vars

\* remove has returned the value of a key that was in the store
C8_Witness ==
    /\ call.op = "remove"
    /\ call.ret # None
    /\ DOMAIN store # {}

\* the step is get(k) directly after insert(k, _, ttl = 0), no call in between
GetAfterZeroTtlInsert ==
    /\ call.op = "insert"
    /\ call.ttl = Some(0)
    /\ IsCall("get")
    /\ call'.key = call.key

\* C9 as stated: a get(k) that directly follows insert(k, v, ttl = 0) returns
\* nothing and leaves k out of the store, whatever the clock reads.
C9_ZeroTtlGetReturnsNothing ==
    [][GetAfterZeroTtlInsert =>
          /\ call'.ret = None
          /\ call.key \notin DOMAIN store']_vars

\* C9 amended: insert(k, v, ttl = 0) stores the insertion instant as the
\* expiry; a get(k) that directly follows returns nothing and removes k from
\* the store when the clock has advanced past that instant, and returns v and
\* keeps k when the clock still reads that instant.
C9_ZeroTtlExpiresOnceClockAdvanced ==
    [][/\ (IsCall("insert") /\ call'.ttl = Some(0)) =>
             store'[call'.key] = <<call'.value, Some(now')>>
       /\ GetAfterZeroTtlInsert =>
             IF now > Unwrap(store[call.key][2])
             THEN call'.ret = None /\ call.key \notin DOMAIN store'
             ELSE call'.ret = Some(call.value) /\ call.key \in DOMAIN store']_vars

\* insert(k, v, ttl = 0) was the last call and the clock has advanced since
C9_Witness ==
    /\ call.op = "insert"
    /\ call.ttl = Some(0)
    /\ call.key \in DOMAIN store
    /\ now > Unwrap(store[call.key][2])

\* C10: insert fixes the expiry at insertion time + ttl; no later call or
\* tick changes the expiry or the value of an entry that stays; get(k) returns
\* the value while the clock is <= the expiry and nothing once it is > the
\* expiry.
C10_ExpiryFixedAtInsert ==
    [][/\ IsCall("insert") =>
             /\ store'[call'.key][2] =
                   (IF call'.ttl = None THEN None ELSE Some(now' + Unwrap(call'.ttl)))
             /\ \A k \in (DOMAIN store \cap DOMAIN store') \ {call'.key} :
                   store'[k] = store[k]
       /\ ~IsCall("insert") =>
             \A k \in DOMAIN store \cap DOMAIN store' : store'[k] = store[k]
       /\ (IsCall("get") /\ call'.key \in DOMAIN store) =>
             IF store[call'.key][2] = None \/ now <= Unwrap(store[call'.key][2])
             THEN call'.ret = Some(store[call'.key][1]) /\ store' = store
             ELSE call'.ret = None /\ store' = MapRemove(store, call'.key)]_vars

\* a get at the very instant of expiry has returned the value
C10_Witness ==
    /\ call.op = "get"
    /\ call.ret # None
    /\ call.key \in DOMAIN store
    /\ store[call.key][2] = Some(now)
    /\ now > 0

\* C11: insert calls evict_next only while the policy tracks at least one key
\* and the store is not empty, so the expect() of evict_next cannot fail.
C11_EvictOnlyFromNonEmpty ==
    [][(IsCall("insert") /\ call'.evicted # None) =>
          LET c1 == AfterCheck(Self, call'.key, now) IN
          /\ Tracked(c1.eviction_policy) # {}
          /\ DOMAIN c1.store # {}]_vars

\* C12: a cache with max_capacity = 0 is rejected at construction, so insert
\* never evaluates its capacity test with max_capacity = 0.
C12_ZeroCapacityRejected ==
    call.op \in {"insert", "panic"} => max_capacity # 0

\* C13: after insert(k, v, None), k is in the store with value v and no
\* expiry, whatever that insert evicted, and a get(k) that directly follows
\* returns v.
C13_InsertedKeyIsStored ==
    [][/\ (IsCall("insert") /\ call'.ttl = None) =>
             /\ call'.key \in DOMAIN store'
             /\ store'[call'.key] = <<call'.value, None>>
       /\ (/\ call.op = "insert" /\ call.ttl = None
           /\ IsCall("get") /\ call'.key = call.key) =>
             call'.ret = Some(call.value)]_vars

\* insert(k, v, None) has evicted, and evict_next handed out k itself
C13_Witness ==
    /\ call.op = "insert"
    /\ call.ttl = None
    /\ call.evicted = Some(call.key)
    /\ call.key \in DOMAIN store

\* the usage count the LFU policy holds for key, 0 when it holds none
Count(p, key) == IF key \in DOMAIN p.usage_counter THEN p.usage_counter[key] ELSE 0

\* C14: when get(k) finds the entry of k expired and removes it from the
\* store, the policy holds no record for k once get has returned.
C14_ExpiryErasesPolicyRecord ==
    [][(/\ IsCall("get")
        /\ call'.key \in DOMAIN store
        /\ Expired(store[call'.key], now))
       => /\ call'.key \notin DOMAIN store'
          /\ call'.key \notin Tracked(eviction_policy')]_vars

\* C15: every insert(k, ...) records exactly one use of k: under LFU the
\* count of k rises by exactly 1, whether or not k was in the store and
\* whether or not the store was full.
C15_InsertCountsOneUse ==
    [][(IsCall("insert") /\ eviction_policy.kind = "LFU") =>
          Count(eviction_policy', call'.key) = Count(eviction_policy, call'.key) + 1]_vars

\* C16: under LFU, a key whose entry was destroyed (by remove, expiry or
\* eviction) starts again at count 1 when it is inserted again: after insert
\* of a key that is not in the store its count is 1.
C16_CountRestartsAfterDestroy ==
    [][(/\ IsCall("insert")
        /\ eviction_policy.kind = "LFU"
        /\ call'.key \notin DOMAIN store)
       => Count(eviction_policy', call'.key) = 1]_vars

\* C17: in the LFU policy, every bucket count_to_key[c] holds exactly the keys
\* whose usage_counter is c, every counted key is in exactly one bucket, and
\* no empty bucket is kept.
C17_LfuIndexConsistent ==
    eviction_policy.kind = "LFU" =>
        LET uc  == eviction_policy.usage_counter
            c2k == eviction_policy.count_to_key
        IN /\ \A c \in DOMAIN c2k :
                 /\ c2k[c] # {}
                 /\ c2k[c] = {k \in DOMAIN uc : uc[k] = c}
           /\ \A k \in DOMAIN uc : Records(eviction_policy, k) = 1

\* key_used has moved a key to count 2 and the emptied bucket 1 is gone
C17_Witness ==
    /\ eviction_policy.kind = "LFU"
    /\ call.op = "key_used"
    /\ Count(eviction_policy, call.key) = 2
    /\ 1 \notin DOMAIN eviction_policy.count_to_key

\* every key but k has the count it had
OtherCountsKept(k) ==
    \A j \in Keys \ {k} : Count(eviction_policy', j) = Count(eviction_policy, j)

\* C18: in the LFU policy the count of a key is the number of key_used calls
\* since it was last untracked (key_used adds 1, remove_key and evict_next
\* reset it, no call touches another key); evict_next returns a key of
\* minimal count among the tracked keys and removes exactly that key.
C18_LfuEvictsMinimum ==
    [][eviction_policy.kind = "LFU" =>
         /\ IsCall("key_used") =>
               /\ Count(eviction_policy', call'.key) = Count(eviction_policy, call'.key) + 1
               /\ OtherCountsKept(call'.key)
         /\ IsCall("remove_key") =>
               /\ call'.key \notin Tracked(eviction_policy')
               /\ OtherCountsKept(call'.key)
         /\ IsCall("evict_next") =>
               /\ call'.key \in Tracked(eviction_policy)
               /\ \A j \in Tracked(eviction_policy) :
                     Count(eviction_policy, call'.key) <= Count(eviction_policy, j)
               /\ call'.key \notin Tracked(eviction_policy')
               /\ OtherCountsKept(call'.key)]_vars

\* evict_next has returned a key while a key of count 2 or more stayed
C18_Witness ==
    /\ eviction_policy.kind = "LFU"
    /\ call.op = "evict_next"
    /\ \E j \in Keys : Count(eviction_policy, j) >= 2

\* q with every occurrence of k taken out
Without(q, k) == SelectSeq(q, LAMBDA x : x # k)

\* C19: in the LRU policy access_order holds each tracked key once, oldest
\* use first: key_used(k) moves k to the back and keeps the order of the
\* others, evict_next returns and removes the front, remove_key(k) takes k out
\* and changes nothing when k is untracked.
C19_LruOrder ==
    [][eviction_policy.kind = "LRU" =>
         LET q  == eviction_policy.access_order
             q2 == eviction_policy'.access_order
         IN /\ \A i, j \in 1..Len(q2) : q2[i] = q2[j] => i = j
            /\ IsCall("key_used") => q2 = Append(Without(q, call'.key), call'.key)
            /\ IsCall("evict_next") => call'.key = Head(q) /\ q2 = Tail(q)
            /\ IsCall("remove_key") =>
                  /\ q2 = Without(q, call'.key)
                  /\ call'.key \notin Tracked(eviction_policy) => q2 = q]_vars

\* evict_next has returned the front key and two or more keys stayed
C19_Witness ==
    /\ eviction_policy.kind = "LRU"
    /\ call.op = "evict_next"
    /\ Len(eviction_policy.access_order) >= 2

\* C20: after every call every key of the store is tracked by the eviction
\* policy, and a key that evict_next handed out to an insert of another key is
\* not in the store when that insert returns.
C20_StoreKeysAreTracked ==
    /\ DOMAIN store \subseteq Tracked(eviction_policy)
    /\ (/\ call.op = "insert" /\ call.evicted # None
        /\ Unwrap(call.evicted) # call.key) =>
          Unwrap(call.evicted) \notin DOMAIN store

\* an insert has evicted another key, and the policy tracks a key that the
\* store no longer holds
C20_Witness ==
    /\ call.op = "insert" /\ call.evicted # None
    /\ Unwrap(call.evicted) # call.key
    /\ DOMAIN store # {}
    /\ DOMAIN store # Tracked(eviction_policy)

=============================================================================
